---- MODULE Spec2Model ----
(***************************************************************************)
(* Asynchronous ingestion job pipeline of synapse-cortex: the in-memory    *)
(* job store (app/services/job_store.py), the ingestion service            *)
(* (app/services/ingestion.py), the status endpoint (app/api/routes.py)    *)
(* and the hydration call it awaits (app/services/hydration.py).           *)
(*                                                                         *)
(* The handlers are coroutines on one asyncio event loop: control changes  *)
(* hands only at an await that really suspends (the graph queries and the  *)
(* extraction engine call).  Every action below is the code that runs      *)
(* between two such suspension points.                                     *)
(***************************************************************************)
EXTENDS Integers, Sequences, FiniteSets, TLC

\* ------------------------------------------------------------------ bounds
MaxJobs == 2         \* JobEntry objects allocated in one run of Spec
MaxRaceJobs == 3     \* JobEntry objects allocated in one run of SpecRace
MaxAccepts == 1      \* accept_session calls suspended at the same time
MaxPolls == 2        \* ingest_status calls suspended at the same time
MaxGraph == 1        \* graph mutations the engine applies to one group
MaxCalls == 3        \* direct job-store calls made in one run of SpecStore
MaxRecords == 2      \* records one graph query returns in SpecBuild
MaxEdges == 3        \* RELATES_TO edges in the graph in SpecQuery

\* ------------------------------------------------------- program constants
MIN_MESSAGES == 1
MIN_TOTAL_CHARS == 5
DEFAULT_MIN_DEGREE == 2

\* --------------------------------------------------------------- universes
JobIds == {"j1", "j2"}
UserIds == {"u1", "u2"}
SessionOf(u) == IF u = "u1" THEN "s1" ELSE "s2"

\* Optional values (Python's T | None): None is <<>>, a value v is <<v>>.
None == <<>>
Some(v) == <<v>>

Msg(role, content) == [role |-> role, content |-> content]

Request(j, u, m) == [jobId |-> j, userId |-> u, sessionId |-> SessionOf(u), messages |-> m]

\* IngestRequest as accept_session reads it.  Sessions around the skip
\* threshold (0 messages, 4 and 5 characters in one message, 5 and 4
\* characters spread over two messages), the same job id submitted by two
\* users, and one user submitting two job ids.
Requests ==
    { Request("j1", "u1", <<Msg("user", "abcde")>>),
      Request("j1", "u2", <<Msg("user", "ab"), Msg("assistant", "abc")>>),
      Request("j2", "u2", <<Msg("user", "abcde")>>),
      Request("j1", "u1", <<>>),
      Request("j2", "u2", <<Msg("user", "abcd")>>),
      Request("j1", "u2", <<Msg("user", "ab"), Msg("assistant", "cd")>>) }

NoRequest == [jobId |-> "", userId |-> "", sessionId |-> "", messages |-> <<>>]

\* What graphiti.add_episode returns (len(result.nodes), len(result.edges)).
EngineResults == { [nodes |-> 3, edges |-> 5] }
\* str(e) of the exception add_episode raises.
EngineErrors == {"rate limit", "timeout"}
\* round(elapsed_ms, 1)
ElapsedMs == {1500}
\* settings.graphiti_model handed to IngestionService.
ServiceModel == "gemini"

AcceptIds == 1..MaxAccepts
PollIds == 1..MaxPolls
Max(x, y) == IF x > y THEN x ELSE y
\* JobEntry objects, named in the order they are allocated.
ObjIds == 1..Max(MaxJobs, Max(MaxRaceJobs, MaxCalls))
Nil == 0

VARIABLES
    jobs,       \* _jobs: job id -> reference to a JobEntry object, or Nil
    heap,       \* the JobEntry objects
    graph,      \* graph database: per group, the state the queries read
    acc,        \* accept_session calls suspended in build_user_knowledge
    task,       \* the _process_background tasks, one per JobEntry created
    poll,       \* ingest_status calls suspended in build_user_knowledge
    last,       \* the call that returned last, and what it returned
    delivered,  \* per JobEntry, the polls that returned it in a terminal status
    calls,      \* log of direct job-store calls (SpecStore only)
    hyd         \* one build_user_knowledge call on concrete records (SpecBuild only)

vars == <<jobs, heap, graph, acc, task, poll, last, delivered, calls, hyd>>

\* ------------------------------------------------------------- job store
\* A JobEntry; status "absent" marks an object that is not allocated.
NoEntry ==
    [status |-> "absent", user_id |-> "", session_id |-> "", created_at |-> 0,
     model |-> None, processing_time_ms |-> None, nodes_extracted |-> None,
     edges_extracted |-> None, episode_id |-> None, error |-> None, code |-> None]

NewEntry(user_id, session_id, now) ==
    [NoEntry EXCEPT !.status = "processing", !.user_id = user_id,
                    !.session_id = session_id, !.created_at = now]

Store == [jobs |-> jobs, heap |-> heap]

\* The object the next JobEntry(...) call allocates (0 when the run's
\* allocations are used up).
NextObj(S) ==
    IF \E o \in ObjIds : S.heap[o].status = "absent"
    THEN CHOOSE o \in ObjIds :
            /\ S.heap[o].status = "absent"
            /\ \A q \in ObjIds : S.heap[q].status = "absent" => o <= q
    ELSE Nil

\* Faulty variants of create_job: the guard dropped; the entry overwritten
\* before the guard is tested; the guard kept but True returned on both paths.
create_job_no_guard(S, job_id, user_id, session_id) ==
    LET obj == NextObj(S) IN
    IF obj = Nil THEN [ret |-> TRUE, store |-> S] ELSE
    [ret |-> TRUE,
     store |-> [jobs |-> [S.jobs EXCEPT ![job_id] = obj],
                heap |-> [S.heap EXCEPT ![obj] = NewEntry(user_id, session_id, obj)]]]

create_job_overwrites(S, job_id, user_id, session_id) ==
    IF S.jobs[job_id] # Nil
    THEN [ret |-> FALSE,
          store |-> [S EXCEPT !.heap[S.jobs[job_id]] =
                       NewEntry(user_id, session_id, S.jobs[job_id])]]
    ELSE create_job_no_guard(S, job_id, user_id, session_id)

create_job_always_true(S, job_id, user_id, session_id) ==
    IF S.jobs[job_id] # Nil
    THEN [ret |-> TRUE, store |-> S]
    ELSE create_job_no_guard(S, job_id, user_id, session_id)

\* create_job: ret is the returned bool, store the store afterwards.
create_job(S, job_id, user_id, session_id) ==
    IF S.jobs[job_id] # Nil
    THEN [ret |-> FALSE, store |-> S]
    ELSE LET obj == NextObj(S) IN
         IF obj = Nil THEN [ret |-> TRUE, store |-> S] ELSE
         [ret |-> TRUE,
          store |-> [jobs |-> [S.jobs EXCEPT ![job_id] = obj],
                     heap |-> [S.heap EXCEPT ![obj] = NewEntry(user_id, session_id, obj)]]]

\* get_job: the reference held by the dict (no copy is made), Nil for None.
get_job(S, job_id) == S.jobs[job_id]

\* Variant of complete_job that writes a fresh object and rebinds the job id
\* to it, leaving the object earlier callers hold as it was.
complete_job_replaces(S, job_id, model, processing_time_ms, nodes_extracted, edges_extracted, episode_id) ==
    LET job == S.jobs[job_id]
        obj == NextObj(S)
    IN
    IF job # Nil /\ obj # Nil
    THEN [jobs |-> [S.jobs EXCEPT ![job_id] = obj],
          heap |-> [S.heap EXCEPT ![obj] =
            [S.heap[job] EXCEPT !.status = "completed",
                      !.model = model,
                      !.processing_time_ms = processing_time_ms,
                      !.nodes_extracted = nodes_extracted,
                      !.edges_extracted = edges_extracted,
                      !.episode_id = episode_id]]]
    ELSE S

\* Faulty variant of complete_job: an absent job id gets a completed entry.
complete_job_upsert(S, job_id, model, processing_time_ms, nodes_extracted, edges_extracted, episode_id) ==
    LET job == IF S.jobs[job_id] # Nil THEN S.jobs[job_id] ELSE NextObj(S) IN
    IF job # Nil
    THEN [jobs |-> [S.jobs EXCEPT ![job_id] = job],
          heap |-> [S.heap EXCEPT ![job] =
            [@ EXCEPT !.status = "completed",
                      !.model = model,
                      !.processing_time_ms = processing_time_ms,
                      !.nodes_extracted = nodes_extracted,
                      !.edges_extracted = edges_extracted,
                      !.episode_id = episode_id]]]
    ELSE S

complete_job(S, job_id, model, processing_time_ms, nodes_extracted, edges_extracted, episode_id) ==
    LET job == S.jobs[job_id] IN
    IF job # Nil
    THEN [S EXCEPT !.heap[job] =
            [@ EXCEPT !.status = "completed",
                      !.model = model,
                      !.processing_time_ms = processing_time_ms,
                      !.nodes_extracted = nodes_extracted,
                      !.edges_extracted = edges_extracted,
                      !.episode_id = episode_id]]
    ELSE S

fail_job(S, job_id, error, code) ==
    LET job == S.jobs[job_id] IN
    IF job # Nil
    THEN [S EXCEPT !.heap[job] =
            [@ EXCEPT !.status = "failed", !.error = error, !.code = code]]
    ELSE S

\* Faulty variant of remove_job: an entry still processing is kept.
remove_job_terminal_only(S, job_id) ==
    IF S.jobs[job_id] # Nil /\ S.heap[S.jobs[job_id]].status = "processing"
    THEN S
    ELSE [S EXCEPT !.jobs[job_id] = Nil]

\* Faulty variant of remove_job: _jobs.clear() in place of the pop.
remove_job_clears(S, job_id) ==
    [S EXCEPT !.jobs = [k \in JobIds |-> Nil]]

remove_job(S, job_id) == [S EXCEPT !.jobs[job_id] = Nil]

\* Reference counting: a JobEntry that neither the dict nor a suspended
\* ingest_status call refers to is freed; nothing reads it again.
FreedEntry == [NoEntry EXCEPT !.status = "freed"]
Collect(h, js, pl) ==
    [o \in ObjIds |->
        IF /\ h[o].status # "absent"
           /\ \A j \in JobIds : js[j] # o
           /\ \A p \in PollIds : pl[p].job # o
        THEN FreedEntry ELSE h[o]]

\* ------------------------------------------------------ ingestion service
RECURSIVE SumLen(_)
\* sum(len(msg.content) for msg in messages)
SumLen(messages) ==
    IF messages = <<>> THEN 0
    ELSE Len(Head(messages).content) + SumLen(Tail(messages))

\* Faulty variants of _should_ingest: the character threshold forgotten; both
\* comparisons off by one.
should_ingest_count_only(messages) ==
    IF Len(messages) < MIN_MESSAGES THEN FALSE ELSE TRUE

should_ingest_off_by_one(messages) ==
    IF Len(messages) <= MIN_MESSAGES THEN FALSE
    ELSE IF SumLen(messages) <= MIN_TOTAL_CHARS THEN FALSE
    ELSE TRUE

should_ingest(messages) ==
    IF Len(messages) < MIN_MESSAGES THEN FALSE
    ELSE IF SumLen(messages) < MIN_TOTAL_CHARS THEN FALSE
    ELSE TRUE

\* ------------------------------------------------------ hydration service
\* What the entity query and the relationship query return for the group:
\* the lines of the group's graph state at the moment of the read.
fetch_entity_definitions(g, group_id) == g[group_id]
\* Faulty variant of the relationship query: a result kept from start-up.
fetch_relationships_cached(g, group_id) == 0

fetch_relationships(g, group_id) == g[group_id]
\* build_user_knowledge's result from the two fetched line lists.
Compilation(definitions, relationships) ==
    [defs |-> definitions, rels |-> relationships]

\* The same service on concrete query results.  A record field is None
\* (null) or Some(text); a relation name is Some(sequence of characters).
\* Python's truth value of a str | None.
Truthy(x) == x # None /\ Len(x[1]) > 0

EntityRecord(name, summary, degree) ==
    [name |-> name, summary |-> summary, degree |-> degree]

RelRecord(source_name, relation_name, target_name, fact, valid_at, invalid_at) ==
    [source_name |-> source_name, relation_name |-> relation_name,
     target_name |-> target_name, fact |-> fact,
     valid_at |-> valid_at, invalid_at |-> invalid_at]

RECURSIVE Join(_, _)
\* sep.join(parts)
Join(parts, sep) ==
    IF parts = <<>> THEN ""
    ELSE IF Len(parts) = 1 THEN Head(parts)
    ELSE Head(parts) \o sep \o Join(Tail(parts), sep)

UpperCase == <<"A", "B", "C", "D", "E", "F", "G", "H", "I", "J", "K", "L", "M",
               "N", "O", "P", "Q", "R", "S", "T", "U", "V", "W", "X", "Y", "Z">>
LowerCase == <<"a", "b", "c", "d", "e", "f", "g", "h", "i", "j", "k", "l", "m",
               "n", "o", "p", "q", "r", "s", "t", "u", "v", "w", "x", "y", "z">>
\* str.lower() on one character
lower(c) ==
    IF \E i \in 1..26 : UpperCase[i] = c
    THEN LowerCase[CHOOSE i \in 1..26 : UpperCase[i] = c]
    ELSE c

\* Faulty variant of _format_relation_name: .lower() is left out.
format_relation_name_keeps_case(name) ==
    IF ~Truthy(name) THEN "relates to"
    ELSE Join([i \in 1..Len(name[1]) |->
                 IF name[1][i] = "_" THEN " " ELSE name[1][i]], "")

\* name.replace("_", " ").lower(), or "relates to" for no name
format_relation_name(name) ==
    IF ~Truthy(name) THEN "relates to"
    ELSE Join([i \in 1..Len(name[1]) |->
                 lower(IF name[1][i] = "_" THEN " " ELSE name[1][i])], "")

RECURSIVE entity_lines(_)
\* The lines _fetch_entity_definitions builds from the query's records.
entity_lines(records) ==
    IF records = <<>> THEN <<>>
    ELSE LET record == Head(records) IN
         (IF Truthy(record.name) /\ Truthy(record.summary)
          THEN << "- **" \o record.name[1] \o "**: " \o record.summary[1] >>
          ELSE <<>>) \o entity_lines(Tail(records))

\* One relationship line.
relationship_line(record) ==
    LET verb == format_relation_name(record.relation_name)
        line == "- " \o record.source_name[1] \o " " \o verb \o " "
                     \o record.target_name[1]
        with_fact == IF Truthy(record.fact)
                     THEN line \o ": \"" \o record.fact[1] \o "\""
                     ELSE line
        temporal_parts ==
            (IF Truthy(record.valid_at)
             THEN << "valid_at: " \o record.valid_at[1] >> ELSE <<>>) \o
            (IF Truthy(record.invalid_at)
             THEN << "invalid_at: " \o record.invalid_at[1] >> ELSE <<>>)
    IN IF temporal_parts # <<>>
       THEN with_fact \o " [" \o Join(temporal_parts, ", ") \o "]"
       ELSE with_fact

RECURSIVE relationship_lines(_)
\* The lines _fetch_relationships builds from the query's records.
relationship_lines(records) ==
    IF records = <<>> THEN <<>>
    ELSE LET record == Head(records) IN
         (IF ~Truthy(record.source_name) \/ ~Truthy(record.target_name)
          THEN <<>>
          ELSE << relationship_line(record) >>) \o relationship_lines(Tail(records))

RECURSIVE TotalChars(_)
\* sum(len(line) for line in lines)
TotalChars(lines) ==
    IF lines = <<>> THEN 0 ELSE Len(Head(lines)) + TotalChars(Tail(lines))

\* Faulty variant of _format_compilation: the relationships section is
\* appended first.
format_compilation_relations_first(definitions, relationships) ==
    LET sections ==
            (IF relationships # <<>>
             THEN << "#### 2. RELATIONAL DYNAMICS & CAUSALITY ####\n"
                     \o "# (How these concepts interact and evolve over time)\n"
                     \o Join(relationships, "\n") >>
             ELSE <<>>) \o
            (IF definitions # <<>>
             THEN << "#### 1. CONCEPTUAL DEFINITIONS & IDENTITY ####\n"
                     \o "# (Understanding what these concepts mean specifically for this user)\n"
                     \o Join(definitions, "\n") >>
             ELSE <<>>)
        total_chars == TotalChars(definitions) + TotalChars(relationships)
        est_tokens == total_chars \div 4
        stats == "\n\n### STATS ###\n# Definitions: " \o ToString(Len(definitions))
                 \o " | Relations: " \o ToString(Len(relationships))
                 \o " | Est. Tokens: ~" \o ToString(est_tokens)
    IN IF sections = <<>> THEN "" ELSE Join(sections, "\n\n") \o stats

\* Faulty variant of _format_compilation: each line set is divided by 4
\* on its own and the quotients are added.
format_compilation_divides_each(definitions, relationships) ==
    LET sections ==
            (IF definitions # <<>>
             THEN << "#### 1. CONCEPTUAL DEFINITIONS & IDENTITY ####\n"
                     \o "# (Understanding what these concepts mean specifically for this user)\n"
                     \o Join(definitions, "\n") >>
             ELSE <<>>) \o
            (IF relationships # <<>>
             THEN << "#### 2. RELATIONAL DYNAMICS & CAUSALITY ####\n"
                     \o "# (How these concepts interact and evolve over time)\n"
                     \o Join(relationships, "\n") >>
             ELSE <<>>)
        total_chars == TotalChars(definitions) + TotalChars(relationships)
        est_tokens == (TotalChars(definitions) \div 4) + (TotalChars(relationships) \div 4)
        stats == "\n\n### STATS ###\n# Definitions: " \o ToString(Len(definitions))
                 \o " | Relations: " \o ToString(Len(relationships))
                 \o " | Est. Tokens: ~" \o ToString(est_tokens)
    IN IF sections = <<>> THEN "" ELSE Join(sections, "\n\n") \o stats

format_compilation(definitions, relationships) ==
    LET sections ==
            (IF definitions # <<>>
             THEN << "#### 1. CONCEPTUAL DEFINITIONS & IDENTITY ####\n"
                     \o "# (Understanding what these concepts mean specifically for this user)\n"
                     \o Join(definitions, "\n") >>
             ELSE <<>>) \o
            (IF relationships # <<>>
             THEN << "#### 2. RELATIONAL DYNAMICS & CAUSALITY ####\n"
                     \o "# (How these concepts interact and evolve over time)\n"
                     \o Join(relationships, "\n") >>
             ELSE <<>>)
        total_chars == TotalChars(definitions) + TotalChars(relationships)
        est_tokens == total_chars \div 4
        stats == "\n\n### STATS ###\n# Definitions: " \o ToString(Len(definitions))
                 \o " | Relations: " \o ToString(Len(relationships))
                 \o " | Est. Tokens: ~" \o ToString(est_tokens)
    IN IF sections = <<>> THEN "" ELSE Join(sections, "\n\n") \o stats

\* Faulty variant of the empty test: `or` in place of `and`.
build_user_knowledge_either_empty(definitions, relationships) ==
    IF definitions = <<>> \/ relationships = <<>>
    THEN ""
    ELSE format_compilation(definitions, relationships)

\* build_user_knowledge once both line lists are fetched.
build_user_knowledge(definitions, relationships) ==
    IF definitions = <<>> /\ relationships = <<>>
    THEN ""
    ELSE format_compilation(definitions, relationships)

\* ----------------------------------------------------------- call records
IdleBuild ==
    [pc |-> "idle", db |-> {}, entity_records |-> <<>>, rel_records |-> <<>>,
     definitions |-> <<>>, relationships |-> <<>>, out |-> ""]

IdleAccept == [pc |-> "idle", req |-> NoRequest, defs |-> 0]

NoTask == [st |-> "none", req |-> NoRequest]
\* A finished task, by how add_episode ended: "returned" or "raised".
DoneTask(how) == [st |-> how, req |-> NoRequest]

IdlePoll == [pc |-> "idle", job_id |-> "", job |-> Nil, user_id |-> "", defs |-> 0]

\* IngestAcceptedResponse / IngestStatusResponse, or the exception raised.
NoResp ==
    [status |-> "none", compilation |-> None, metadata |-> None,
     error |-> None, code |-> None]
Resp(status) == [NoResp EXCEPT !.status = status]

NoLast == [op |-> "none", req |-> NoRequest, resp |-> NoResp]
AcceptReturn(req, resp) == [op |-> "accept", req |-> req, resp |-> resp]
PollReturn(job_id, resp) ==
    [op |-> "poll", req |-> [NoRequest EXCEPT !.jobId = job_id], resp |-> resp]

\* ------------------------------------------------------------------- Init
Init ==
    /\ jobs = [j \in JobIds |-> Nil]
    /\ heap = [o \in ObjIds |-> NoEntry]
    /\ graph = [u \in UserIds |-> 0]
    /\ acc = [a \in AcceptIds |-> IdleAccept]
    /\ task = [o \in ObjIds |-> NoTask]
    /\ poll = [p \in PollIds |-> IdlePoll]
    /\ last = NoLast
    /\ delivered = [o \in ObjIds |-> 0]
    /\ calls = <<>>
    /\ hyd = IdleBuild

\* ------------------------------------------------------- accept_session
\* Skip branch up to the first await inside build_user_knowledge.
AcceptSkip(a, req) ==
    /\ acc[a].pc = "idle"
    /\ \A b \in AcceptIds : b < a => acc[b].pc # "idle"
    /\ ~should_ingest(req.messages)
    /\ acc' = [acc EXCEPT ![a] = [pc |-> "fetch_defs", req |-> req, defs |-> 0]]
    /\ UNCHANGED <<jobs, heap, graph, task, poll, last, delivered, calls, hyd>>

\* create_job returned False: duplicate submit.
AcceptDuplicate(req) ==
    /\ should_ingest(req.messages)
    /\ LET r == create_job(Store, req.jobId, req.userId, req.sessionId) IN
        /\ ~r.ret
        /\ get_job(r.store, req.jobId) # Nil
        /\ jobs' = r.store.jobs
        /\ heap' = r.store.heap
    /\ last' = AcceptReturn(req, Resp("processing"))
    /\ UNCHANGED <<graph, acc, task, poll, delivered, calls, hyd>>

\* Faulty variant of the fresh branch: the extraction is awaited before the
\* return, so the entry is completed when accept_session returns.
AcceptFresh_awaits(req, cap) ==
    /\ should_ingest(req.messages)
    /\ NextObj(Store) \in 1..cap
    /\ LET r == create_job(Store, req.jobId, req.userId, req.sessionId)
           o == r.store.jobs[req.jobId]
           S == complete_job(r.store, req.jobId, Some(ServiceModel), Some(0),
                             Some(0), Some(0), Some(o))
       IN
        /\ r.ret
        /\ jobs' = S.jobs
        /\ heap' = S.heap
        /\ task' = [task EXCEPT ![o] = DoneTask("returned")]
    /\ last' = AcceptReturn(req, Resp("processing"))
    /\ UNCHANGED <<graph, acc, poll, delivered, calls, hyd>>

\* create_job returned True: asyncio.create_task, then return.  cap bounds
\* the JobEntry objects one run allocates.
AcceptFresh(req, cap) ==
    /\ should_ingest(req.messages)
    /\ NextObj(Store) \in 1..cap
    /\ LET r == create_job(Store, req.jobId, req.userId, req.sessionId) IN
        /\ r.ret
        /\ jobs' = r.store.jobs
        /\ heap' = r.store.heap
        /\ task' = [task EXCEPT ![r.store.jobs[req.jobId]] =
                      [st |-> "scheduled", req |-> req]]
    /\ last' = AcceptReturn(req, Resp("processing"))
    /\ UNCHANGED <<graph, acc, poll, delivered, calls, hyd>>

accept_session(req, cap) ==
    \/ \E a \in AcceptIds : AcceptSkip(a, req)
    \/ AcceptDuplicate(req)
    \/ AcceptFresh(req, cap)

\* The skip branch resumes with the entity query's records.
AcceptFetchDefs(a) ==
    /\ acc[a].pc = "fetch_defs"
    /\ acc' = [acc EXCEPT ![a].pc = "fetch_rels",
                          ![a].defs = fetch_entity_definitions(graph, acc[a].req.userId)]
    /\ UNCHANGED <<jobs, heap, graph, task, poll, last, delivered, calls, hyd>>

\* ... and with the relationship query's records, and returns "skipped".
AcceptFetchRels(a) ==
    /\ acc[a].pc = "fetch_rels"
    /\ LET compilation ==
            Compilation(acc[a].defs, fetch_relationships(graph, acc[a].req.userId))
       IN last' = AcceptReturn(acc[a].req,
                    [Resp("skipped") EXCEPT !.compilation = Some(compilation)])
    /\ acc' = [acc EXCEPT ![a] = IdleAccept]
    /\ UNCHANGED <<jobs, heap, graph, task, poll, delivered, calls, hyd>>

\* A graph query raises: the exception leaves accept_session.
AcceptQueryFailure(a) ==
    /\ acc[a].pc \in {"fetch_defs", "fetch_rels"}
    /\ last' = AcceptReturn(acc[a].req, Resp("query_failure"))
    /\ acc' = [acc EXCEPT ![a] = IdleAccept]
    /\ UNCHANGED <<jobs, heap, graph, task, poll, delivered, calls, hyd>>

\* ---------------------------------------------------- _process_background
\* The task starts running: formats the messages and awaits add_episode.
TaskStart(o) ==
    /\ task[o].st = "scheduled"
    /\ task' = [task EXCEPT ![o].st = "extracting"]
    /\ UNCHANGED <<jobs, heap, graph, acc, poll, last, delivered, calls, hyd>>

\* The engine, while the call is in flight, mutates the group's graph
\* (group_id = request.userId).
EngineWrite(o) ==
    /\ task[o].st = "extracting"
    /\ graph[task[o].req.userId] < MaxGraph
    /\ graph' = [graph EXCEPT ![task[o].req.userId] = @ + 1]
    /\ UNCHANGED <<jobs, heap, acc, task, poll, last, delivered, calls, hyd>>

\* add_episode returned: complete_job.  The episode uuid is the task's own.
TaskComplete(o, result, elapsed_ms) ==
    /\ task[o].st = "extracting"
    /\ LET S == complete_job(Store, task[o].req.jobId, Some(ServiceModel),
                             Some(elapsed_ms), Some(result.nodes),
                             Some(result.edges), Some(o))
       IN /\ jobs' = S.jobs
          /\ heap' = S.heap
    /\ task' = [task EXCEPT ![o] = DoneTask("returned")]
    /\ UNCHANGED <<graph, acc, poll, last, delivered, calls, hyd>>

\* Faulty variant of the task: after fail_job the extraction is tried again.
TaskFail_retries(o, msg) ==
    /\ task[o].st = "extracting"
    /\ LET S == fail_job(Store, task[o].req.jobId, Some(msg),
                         Some("GRAPH_PROCESSING_ERROR"))
       IN /\ jobs' = S.jobs
          /\ heap' = S.heap
    /\ task' = [task EXCEPT ![o].st = "scheduled"]
    /\ UNCHANGED <<graph, acc, poll, last, delivered, calls, hyd>>

\* Faulty variant of the task: no except clause, the exception leaves the
\* task and fail_job is not called.
TaskFail_escapes(o, msg) ==
    /\ task[o].st = "extracting"
    /\ task' = [task EXCEPT ![o] = DoneTask("raised")]
    /\ UNCHANGED <<jobs, heap, graph, acc, poll, last, delivered, calls, hyd>>

\* add_episode raised: fail_job.
TaskFail(o, msg) ==
    /\ task[o].st = "extracting"
    /\ LET S == fail_job(Store, task[o].req.jobId, Some(msg),
                         Some("GRAPH_PROCESSING_ERROR"))
       IN /\ jobs' = S.jobs
          /\ heap' = S.heap
    /\ task' = [task EXCEPT ![o] = DoneTask("raised")]
    /\ UNCHANGED <<graph, acc, poll, last, delivered, calls, hyd>>

\* ----------------------------------------------------------- ingest_status
Deliver(o) == [delivered EXCEPT ![o] = IF @ < 2 THEN @ + 1 ELSE @]

\* Faulty variant of the 404 branch: an unknown job id is reported processing.
PollNotFound_as_processing(job_id) ==
    /\ get_job(Store, job_id) = Nil
    /\ last' = PollReturn(job_id, Resp("processing"))
    /\ UNCHANGED <<jobs, heap, graph, acc, task, poll, delivered, calls, hyd>>

\* get_job returned None: HTTPException(404).
PollNotFound(job_id) ==
    /\ get_job(Store, job_id) = Nil
    /\ last' = PollReturn(job_id, Resp("not_found"))
    /\ UNCHANGED <<jobs, heap, graph, acc, task, poll, delivered, calls, hyd>>

\* Faulty variant of the processing branch: the entry is removed on return.
PollProcessing_removes(job_id) ==
    /\ LET job == get_job(Store, job_id)
           S == remove_job(Store, job_id)
       IN
        /\ job # Nil
        /\ heap[job].status = "processing"
        /\ jobs' = S.jobs
        /\ heap' = Collect(S.heap, S.jobs, poll)
    /\ last' = PollReturn(job_id, Resp("processing"))
    /\ UNCHANGED <<graph, acc, task, poll, delivered, calls, hyd>>

PollProcessing(job_id) ==
    /\ LET job == get_job(Store, job_id) IN
        /\ job # Nil
        /\ heap[job].status = "processing"
    /\ last' = PollReturn(job_id, Resp("processing"))
    /\ UNCHANGED <<jobs, heap, graph, acc, task, poll, delivered, calls, hyd>>

\* status completed: up to the first await inside build_user_knowledge; the
\* call keeps its reference to the entry.
PollCompletedBegin(p, job_id) ==
    /\ poll[p].pc = "idle"
    /\ \A q \in PollIds : q < p => poll[q].pc # "idle"
    /\ LET job == get_job(Store, job_id) IN
        /\ job # Nil
        /\ heap[job].status = "completed"
        /\ poll' = [poll EXCEPT ![p] =
                     [pc |-> "fetch_defs", job_id |-> job_id, job |-> job,
                      user_id |-> heap[job].user_id, defs |-> 0]]
    /\ UNCHANGED <<jobs, heap, graph, acc, task, last, delivered, calls, hyd>>

\* Faulty variant of the failed branch: the entry is returned but not removed.
PollFailed_keeps(job_id) ==
    /\ LET job == get_job(Store, job_id) IN
        /\ job # Nil
        /\ heap[job].status = "failed"
        /\ last' = PollReturn(job_id, [Resp("failed") EXCEPT
                                         !.error = heap[job].error,
                                         !.code = heap[job].code])
        /\ delivered' = Deliver(job)
    /\ UNCHANGED <<jobs, heap, graph, acc, task, poll, calls, hyd>>

\* status failed: remove_job and return, with no await.
PollFailed(job_id) ==
    /\ LET job == get_job(Store, job_id)
           S == remove_job(Store, job_id)
       IN
        /\ job # Nil
        /\ heap[job].status = "failed"
        /\ jobs' = S.jobs
        /\ heap' = Collect(S.heap, S.jobs, poll)
        /\ last' = PollReturn(job_id, [Resp("failed") EXCEPT
                                         !.error = heap[job].error,
                                         !.code = heap[job].code])
        /\ delivered' = Deliver(job)
    /\ UNCHANGED <<graph, acc, task, poll, calls, hyd>>

ingest_status(job_id) ==
    \/ PollNotFound(job_id)
    \/ PollProcessing(job_id)
    \/ \E p \in PollIds : PollCompletedBegin(p, job_id)
    \/ PollFailed(job_id)

PollFetchDefs(p) ==
    /\ poll[p].pc = "fetch_defs"
    /\ poll' = [poll EXCEPT ![p].pc = "fetch_rels",
                            ![p].defs = fetch_entity_definitions(graph, poll[p].user_id)]
    /\ UNCHANGED <<jobs, heap, graph, acc, task, last, delivered, calls, hyd>>

\* IngestResponseMetadata built from the entry the call holds.
PollMetadata(job) ==
    IF \/ job.model # None
       \/ job.processing_time_ms # None
       \/ job.nodes_extracted # None
       \/ job.edges_extracted # None
       \/ job.episode_id # None
    THEN Some([model |-> IF job.model # None /\ job.model # Some("")
                         THEN job.model[1] ELSE "unknown",
               processing_time_ms |-> job.processing_time_ms,
               nodes_extracted |-> job.nodes_extracted,
               edges_extracted |-> job.edges_extracted,
               episode_id |-> job.episode_id])
    ELSE None

\* build_user_knowledge returned: metadata, remove_job, return.
PollFetchRels(p) ==
    /\ poll[p].pc = "fetch_rels"
    /\ LET compilation ==
            Compilation(poll[p].defs, fetch_relationships(graph, poll[p].user_id))
           S == remove_job(Store, poll[p].job_id)
       IN
        /\ jobs' = S.jobs
        /\ heap' = Collect(S.heap, S.jobs, [poll EXCEPT ![p] = IdlePoll])
        /\ last' = PollReturn(poll[p].job_id,
                     [Resp("completed") EXCEPT
                        !.compilation = Some(compilation),
                        !.metadata = PollMetadata(heap[poll[p].job])])
    /\ delivered' = Deliver(poll[p].job)
    /\ poll' = [poll EXCEPT ![p] = IdlePoll]
    /\ UNCHANGED <<graph, acc, task, calls, hyd>>

\* A graph query raises: the exception leaves ingest_status before remove_job.
PollQueryFailure(p) ==
    /\ poll[p].pc \in {"fetch_defs", "fetch_rels"}
    /\ last' = PollReturn(poll[p].job_id, Resp("query_failure"))
    /\ poll' = [poll EXCEPT ![p] = IdlePoll]
    /\ heap' = Collect(heap, jobs, poll')
    /\ UNCHANGED <<jobs, graph, acc, task, delivered, calls, hyd>>

\* ------------------------------------------------------------------- Next
Next ==
    \/ \E req \in Requests : accept_session(req, MaxJobs)
    \/ \E a \in AcceptIds : AcceptFetchDefs(a)
    \/ \E a \in AcceptIds : AcceptFetchRels(a)
    \/ \E a \in AcceptIds : AcceptQueryFailure(a)
    \/ \E o \in ObjIds : TaskStart(o)
    \/ \E o \in ObjIds : EngineWrite(o)
    \/ \E o \in ObjIds, result \in EngineResults, ms \in ElapsedMs :
          TaskComplete(o, result, ms)
    \/ \E o \in ObjIds, msg \in EngineErrors : TaskFail(o, msg)
    \/ \E j \in JobIds : ingest_status(j)
    \/ \E p \in PollIds : PollFetchDefs(p)
    \/ \E p \in PollIds : PollFetchRels(p)
    \/ \E p \in PollIds : PollQueryFailure(p)

Spec == Init /\ [][Next]_vars

\* ------------------------------------------------------------- SpecRace
\* The same handlers, driven by clients that submit and poll one job id
\* only and always send a session long enough to be processed.
RaceJob == "j1"
RaceRequests == { r \in Requests : r.jobId = RaceJob /\ should_ingest(r.messages) }

NextRace ==
    \/ \E req \in RaceRequests : AcceptDuplicate(req)
    \/ \E req \in RaceRequests : AcceptFresh(req, MaxRaceJobs)
    \/ \E o \in ObjIds : TaskStart(o)
    \/ \E o \in ObjIds : EngineWrite(o)
    \/ \E o \in ObjIds, result \in EngineResults, ms \in ElapsedMs :
          TaskComplete(o, result, ms)
    \/ \E o \in ObjIds, msg \in EngineErrors : TaskFail(o, msg)
    \/ ingest_status(RaceJob)
    \/ \E p \in PollIds : PollFetchDefs(p)
    \/ \E p \in PollIds : PollFetchRels(p)
    \/ \E p \in PollIds : PollQueryFailure(p)

SpecRace == Init /\ [][NextRace]_vars

\* ------------------------------------------------------------- SpecStore
\* The job store on its own: callers invoke its five functions directly, in
\* any order and with any arguments; calls is the log of the calls made.
StoreCodes == {None, Some("GRAPH_PROCESSING_ERROR")}

Call(op, job_id, user_id, ret) ==
    [op |-> op, job_id |-> job_id, user_id |-> user_id, ret |-> ret]

StoreCreate(j, u) ==
    /\ Len(calls) < MaxCalls
    /\ LET r == create_job(Store, j, u, SessionOf(u)) IN
        /\ jobs' = r.store.jobs
        /\ heap' = r.store.heap
        /\ calls' = Append(calls, Call("create", j, u, Some(r.ret)))
    /\ UNCHANGED <<graph, acc, task, poll, last, delivered, hyd>>

StoreGet(j) ==
    /\ Len(calls) < MaxCalls
    /\ calls' = Append(calls, Call("get", j, "", Some(get_job(Store, j))))
    /\ UNCHANGED <<jobs, heap, graph, acc, task, poll, last, delivered, hyd>>

StoreComplete(j, result, elapsed_ms) ==
    /\ Len(calls) < MaxCalls
    /\ LET S == complete_job(Store, j, Some(ServiceModel), Some(elapsed_ms),
                             Some(result.nodes), Some(result.edges),
                             Some(Len(calls) + 1))
       IN /\ jobs' = S.jobs
          /\ heap' = S.heap
    /\ calls' = Append(calls, Call("complete", j, "", None))
    /\ UNCHANGED <<graph, acc, task, poll, last, delivered, hyd>>

StoreFail(j, msg, code) ==
    /\ Len(calls) < MaxCalls
    /\ LET S == fail_job(Store, j, Some(msg), code)
       IN /\ jobs' = S.jobs
          /\ heap' = S.heap
    /\ calls' = Append(calls, Call("fail", j, "", None))
    /\ UNCHANGED <<graph, acc, task, poll, last, delivered, hyd>>

StoreRemove(j) ==
    /\ Len(calls) < MaxCalls
    /\ LET S == remove_job(Store, j)
       IN /\ jobs' = S.jobs
          /\ heap' = S.heap
    /\ calls' = Append(calls, Call("remove", j, "", None))
    /\ UNCHANGED <<graph, acc, task, poll, last, delivered, hyd>>

NextStore ==
    \/ \E j \in JobIds, u \in UserIds : StoreCreate(j, u)
    \/ \E j \in JobIds : StoreGet(j)
    \/ \E j \in JobIds, result \in EngineResults, ms \in ElapsedMs :
          StoreComplete(j, result, ms)
    \/ \E j \in JobIds, msg \in EngineErrors, code \in StoreCodes :
          StoreFail(j, msg, code)
    \/ \E j \in JobIds : StoreRemove(j)

SpecStore == Init /\ [][NextStore]_vars

\* ------------------------------------------------------------- SpecBuild
\* One build_user_knowledge call after the other, each on the records the
\* two graph queries return for the group.
EntityRecords ==
    { EntityRecord(Some("Ana"), Some("likes tea"), 3),
      EntityRecord(None, Some("a summary"), 2),
      EntityRecord(Some(""), Some("a summary"), 2) }

RelRecords ==
    { RelRecord(Some("Ana"), Some(<<"W", "O", "R", "K", "S", "_", "W", "I", "T", "H">>),
                Some("Bob"), Some("since May"), Some("2024-05-01"), None),
      RelRecord(Some("Ana"), None, Some("Tea"), None, None, None),
      RelRecord(None, Some(<<"K", "N", "O", "W", "S">>), Some("Bob"), None, None, None),
      RelRecord(Some("Ana"), Some(<<"K", "N", "O", "W", "S">>), Some(""),
                Some("a fact"), None, Some("2030-01-01")),
      RelRecord(Some("Bob"), Some(<<>>), Some("Ana"), None,
                Some("2023-02-03"), Some("2030-01-01")),
      RelRecord(Some("Bob"), Some(<<"M", "e", "t", "_", "a", "t", "_", "2">>), Some("Tea"),
                Some(""), None, Some("2031-07-01")) }

\* The sequences of at most MaxRecords elements of R.
SeqsUpTo(R) == UNION { [1..n -> R] : n \in 0..MaxRecords }

\* definitions = await self._fetch_entity_definitions(user_id)
BuildFetchDefs(records) ==
    /\ hyd.pc = "idle"
    /\ hyd' = [IdleBuild EXCEPT !.pc = "fetch_rels",
                                !.entity_records = records,
                                !.definitions = entity_lines(records)]
    /\ UNCHANGED <<jobs, heap, graph, acc, task, poll, last, delivered, calls>>

\* relationships = await self._fetch_relationships(user_id), then the result.
BuildFetchRels(records) ==
    /\ hyd.pc = "fetch_rels"
    /\ LET relationships == relationship_lines(records) IN
        hyd' = [hyd EXCEPT !.pc = "done",
                           !.rel_records = records,
                           !.relationships = relationships,
                           !.out = build_user_knowledge(hyd.definitions, relationships)]
    /\ UNCHANGED <<jobs, heap, graph, acc, task, poll, last, delivered, calls>>

\* The call has returned; the next one may start.
BuildReturn ==
    /\ hyd.pc = "done"
    /\ hyd' = IdleBuild
    /\ UNCHANGED <<jobs, heap, graph, acc, task, poll, last, delivered, calls>>

NextBuild ==
    \/ \E records \in SeqsUpTo(EntityRecords) : BuildFetchDefs(records)
    \/ \E records \in SeqsUpTo(RelRecords) : BuildFetchRels(records)
    \/ BuildReturn

SpecBuild == Init /\ [][NextBuild]_vars

\* ------------------------------------------------------------- SpecQuery
\* build_user_knowledge on a graph: the two Cypher queries are evaluated on
\* the Entity nodes below and on the RELATES_TO edges the graph holds.
Node(name, summary, group_id) ==
    [name |-> name, summary |-> summary, group_id |-> group_id]

\* The Entity nodes, by node id.
GraphNodes ==
    << Node(Some("Ana"), Some("likes tea"), "u1"),
       Node(Some("Bob"), Some("a friend"), "u1"),
       Node(Some("Tea"), None, "u1"),
       Node(Some(""), Some("no name"), "u1"),
       Node(Some("Eve"), Some("someone else"), "u2") >>
NodeIds == DOMAIN GraphNodes

Edge(source, name, target, fact, valid_at, invalid_at, group_id) ==
    [source |-> source, name |-> name, target |-> target, fact |-> fact,
     valid_at |-> valid_at, invalid_at |-> invalid_at, group_id |-> group_id]

\* The moment datetime() returns, and timestamps before and after it.
Now == 2026

\* The RELATES_TO edges a graph may hold.
GraphEdges ==
    { Edge(1, Some(<<"W", "O", "R", "K", "S", "_", "W", "I", "T", "H">>), 2,
           Some("since May"), Some(2024), None, "u1"),
      Edge(2, Some(<<"K", "N", "O", "W", "S">>), 1, None, Some(2023), Some(2025), "u1"),
      Edge(1, Some(<<"L", "I", "K", "E", "S">>), 3, Some("every day"), None, Some(2030), "u1"),
      Edge(4, None, 1, None, Some(2022), None, "u1"),
      Edge(2, Some(<<"M", "E", "T">>), 4, None, None, None, "u1"),
      Edge(2, Some(<<"T", "R", "U", "S", "T", "S">>), 2, None, Some(2021), None, "u1"),
      Edge(5, Some(<<"K", "N", "O", "W", "S">>), 2, None, Some(2020), None, "u2") }

Graphs == { G \in SUBSET GraphEdges : Cardinality(G) <= MaxEdges }

\* The injective sequences over all of S in descending order of key, a
\* function on S.
SortedDesc(S, key) ==
    { f \in [1..Cardinality(S) -> S] :
        /\ \A i, k \in 1..Cardinality(S) : i # k => f[i] # f[k]
        /\ \A i, k \in 1..Cardinality(S) : i < k => key[f[i]] >= key[f[k]] }

\* count(r) of FETCH_ENTITIES_QUERY: the rows (n)-[r]-(other) with n <> other.
QueryDegree(G, n) ==
    Cardinality({ r \in G : \/ r.source = n /\ r.target # n
                            \/ r.target = n /\ r.source # n })

\* Faulty variant of the entity query: degree > $min_degree.
EntityMatches_above(G, group_id, min_degree) ==
    { n \in NodeIds :
        /\ QueryDegree(G, n) > 0
        /\ GraphNodes[n].group_id = group_id
        /\ GraphNodes[n].summary # None
        /\ GraphNodes[n].summary # Some("")
        /\ QueryDegree(G, n) > min_degree }

\* The nodes FETCH_ENTITIES_QUERY returns a row for.
EntityMatches(G, group_id, min_degree) ==
    { n \in NodeIds :
        /\ QueryDegree(G, n) > 0
        /\ GraphNodes[n].group_id = group_id
        /\ GraphNodes[n].summary # None
        /\ GraphNodes[n].summary # Some("")
        /\ QueryDegree(G, n) >= min_degree }

\* The results FETCH_ENTITIES_QUERY may return: ORDER BY degree DESC, rows of
\* equal degree in any order.
EntityQueryResults(G, group_id, min_degree) ==
    LET matches == EntityMatches(G, group_id, min_degree)
        rows == SortedDesc(matches, [n \in matches |-> QueryDegree(G, n)])
    IN { [i \in DOMAIN f |->
            EntityRecord(GraphNodes[f[i]].name, GraphNodes[f[i]].summary,
                         QueryDegree(G, f[i]))] : f \in rows }

\* The edges FETCH_RELATIONSHIPS_QUERY returns a row for.
RelMatches(G, group_id) ==
    { r \in G : /\ r.group_id = group_id
                /\ (r.invalid_at = None \/ r.invalid_at[1] > Now) }

\* A timestamp as the record carries it into the f-string.
Stamp(t) == IF t = None THEN None ELSE Some(ToString(t[1]))

\* The results FETCH_RELATIONSHIPS_QUERY may return: ORDER BY r.valid_at
\* DESC, null first, rows of equal valid_at in any order.
RelQueryResults(G, group_id) ==
    LET matches == RelMatches(G, group_id)
        rows == SortedDesc(matches,
                           [r \in matches |-> IF r.valid_at = None THEN Now + 1000
                                              ELSE r.valid_at[1]])
    IN { [i \in DOMAIN f |->
            RelRecord(GraphNodes[f[i].source].name, f[i].name,
                      GraphNodes[f[i].target].name, f[i].fact,
                      Stamp(f[i].valid_at), Stamp(f[i].invalid_at))] : f \in rows }

\* definitions = await self._fetch_entity_definitions(user_id), on graph G.
QueryFetchDefs(G, group_id, records) ==
    /\ hyd.pc = "idle"
    /\ records \in EntityQueryResults(G, group_id, DEFAULT_MIN_DEGREE)
    /\ hyd' = [IdleBuild EXCEPT !.pc = "fetch_rels",
                                !.db = G,
                                !.entity_records = records,
                                !.definitions = entity_lines(records)]
    /\ UNCHANGED <<jobs, heap, graph, acc, task, poll, last, delivered, calls>>

\* relationships = await self._fetch_relationships(user_id), then the result.
QueryFetchRels(group_id, records) ==
    /\ hyd.pc = "fetch_rels"
    /\ records \in RelQueryResults(hyd.db, group_id)
    /\ LET relationships == relationship_lines(records) IN
        hyd' = [hyd EXCEPT !.pc = "done",
                           !.rel_records = records,
                           !.relationships = relationships,
                           !.out = build_user_knowledge(hyd.definitions, relationships)]
    /\ UNCHANGED <<jobs, heap, graph, acc, task, poll, last, delivered, calls>>

QueryGroup == "u1"

NextQuery ==
    \/ \E G \in Graphs :
          \E records \in EntityQueryResults(G, QueryGroup, DEFAULT_MIN_DEGREE) :
             QueryFetchDefs(G, QueryGroup, records)
    \/ \E records \in RelQueryResults(hyd.db, QueryGroup) :
          QueryFetchRels(QueryGroup, records)
    \/ BuildReturn

SpecQuery == Init /\ [][NextQuery]_vars

\* =================================================================== claims
Terminal == {"completed", "failed"}
InFlight == {"scheduled", "extracting"}

\* C1: for every job created in the store at most one poll call ever returns
\* it in a terminal status (completed or failed); every other poll for that
\* job id returns processing or not found.
C1_AtMostOneTerminalPoll ==
    \A o \in ObjIds : delivered[o] <= 1

TasksInFlight(j) == { o \in ObjIds : task[o].st \in InFlight /\ task[o].req.jobId = j }

\* C2: in every reachable state at most one background extraction task is in
\* flight for any given job id.
C2_AtMostOneTaskPerJob ==
    \A j \in JobIds : Cardinality(TasksInFlight(j)) <= 1

NoCompletionMetadata(e) ==
    /\ e.model = None
    /\ e.processing_time_ms = None
    /\ e.nodes_extracted = None
    /\ e.edges_extracted = None
    /\ e.episode_id = None
AllCompletionMetadata(e) ==
    /\ e.model # None
    /\ e.processing_time_ms # None
    /\ e.nodes_extracted # None
    /\ e.edges_extracted # None
    /\ e.episode_id # None
NoFailureMetadata(e) == e.error = None /\ e.code = None
AllFailureMetadata(e) == e.error # None /\ e.code # None

\* C6: every stored job has no metadata while processing, only completion
\* metadata once completed and only failure metadata once failed.
C6_MetadataMatchesStatus ==
    \A j \in JobIds : jobs[j] # Nil =>
        LET e == heap[jobs[j]] IN
        /\ e.status = "processing" => NoCompletionMetadata(e) /\ NoFailureMetadata(e)
        /\ e.status = "completed" => AllCompletionMetadata(e) /\ NoFailureMetadata(e)
        /\ e.status = "failed" => NoCompletionMetadata(e) /\ AllFailureMetadata(e)

\* C7: a stored entry's status only ever changes from processing to completed
\* or from processing to failed, and a completed or failed entry changes in no
\* field for as long as it stays in the store.
C7_TerminalWrittenOnce ==
    [][\A j \in JobIds : (jobs[j] # Nil /\ jobs'[j] = jobs[j]) =>
          LET old == heap[jobs[j]]
              new == heap'[jobs[j]]
          IN /\ new.status # old.status =>
                  old.status = "processing" /\ new.status \in Terminal
             /\ old.status \in Terminal => new = old]_vars

\* C10: when the extraction engine fails for an accepted job the stored entry
\* of that job id becomes failed with the engine's message and the code
\* GRAPH_PROCESSING_ERROR, a poll that finds it failed returns that error and
\* code, and no accept call ever returns the engine's failure.
C10_EngineFailureRecorded ==
    [][/\ \A o \in ObjIds, msg \in EngineErrors : TaskFail(o, msg) =>
            LET j == task[o].req.jobId IN
            /\ jobs'[j] # Nil
            /\ heap'[jobs'[j]].status = "failed"
            /\ heap'[jobs'[j]].error = Some(msg)
            /\ heap'[jobs'[j]].code = Some("GRAPH_PROCESSING_ERROR")
       /\ \A j \in JobIds : PollFailed(j) =>
            /\ last'.resp.status = "failed"
            /\ last'.resp.error = heap[jobs[j]].error
            /\ last'.resp.code = Some("GRAPH_PROCESSING_ERROR")
       /\ last'.op = "accept" =>
            last'.resp.error = None /\ last'.resp.code = None]_vars

LastCall == calls[Len(calls)]

\* C4: create returns true and inserts a processing entry when the job id is
\* absent; when it is present it returns false and leaves the whole store
\* unchanged, so the entry keeps the first call's fields.
C4_CreateInsertsOnce ==
    [][\A j \in JobIds, u \in UserIds : StoreCreate(j, u) =>
          IF jobs[j] = Nil
          THEN /\ LastCall' = Call("create", j, u, Some(TRUE))
               /\ jobs'[j] # Nil
               /\ heap[jobs'[j]].status = "absent"
               /\ heap'[jobs'[j]].status = "processing"
               /\ heap'[jobs'[j]].user_id = u
               /\ heap'[jobs'[j]].session_id = SessionOf(u)
               /\ NoCompletionMetadata(heap'[jobs'[j]])
               /\ NoFailureMetadata(heap'[jobs'[j]])
               /\ \A k \in JobIds \ {j} : jobs'[k] = jobs[k]
               /\ \A o \in ObjIds \ {jobs'[j]} : heap'[o] = heap[o]
          ELSE /\ LastCall' = Call("create", j, u, Some(FALSE))
               /\ jobs' = jobs
               /\ heap' = heap]_vars

\* create was called twice for one job id by different users, and again
\* after the entry was completed: the entry is the first caller's.
C4_Witness ==
    /\ Len(calls) = 3
    /\ calls[1] = Call("create", "j1", "u1", Some(TRUE))
    /\ calls[2].op = "complete" /\ calls[2].job_id = "j1"
    /\ calls[3] = Call("create", "j1", "u2", Some(FALSE))
    /\ heap[jobs["j1"]].user_id = "u1"
    /\ heap[jobs["j1"]].session_id = "s1"
    /\ heap[jobs["j1"]].status = "completed"

CallsOf(op, j) == { i \in 1..Len(calls) : calls[i].op = op /\ calls[i].job_id = j }

\* C5: of the create calls made for one job id on a store that did not
\* contain it (and from which it is not removed meanwhile), exactly one
\* returns true and all others false, whatever the order in which the callers
\* run, and exactly one entry exists for it afterwards.
C5_ExactlyOneCreateWins ==
    \A j \in JobIds : (CallsOf("remove", j) = {} /\ CallsOf("create", j) # {}) =>
        /\ Cardinality({ i \in CallsOf("create", j) : calls[i].ret = Some(TRUE) }) = 1
        /\ \A i \in CallsOf("create", j) :
              calls[i].ret = Some(FALSE) \/
              (calls[i].ret = Some(TRUE) /\ \A k \in CallsOf("create", j) : i <= k)
        /\ jobs[j] # Nil
        /\ heap[jobs[j]].status # "absent"
        /\ \A k \in JobIds \ {j} : jobs[k] # jobs[j]

\* Every caller of the run called create for the same job id.
C5_Witness ==
    /\ Len(calls) = MaxCalls
    /\ \A i \in 1..Len(calls) : calls[i].op = "create" /\ calls[i].job_id = "j1"
    /\ \E i, k \in 1..Len(calls) : calls[i].user_id # calls[k].user_id

\* C8: accept with a session of fewer than 1 message or fewer than 5
\* characters creates no job and launches no task (no step of the call changes
\* the store or the tasks), and returns status skipped with the compilation
\* its build_user_knowledge(userId) call read from the graph (or raises what
\* a graph query raised).
C8_SkipLeavesStoreAlone ==
    [][/\ \A req \in Requests :
            (/\ (Len(req.messages) < 1 \/ SumLen(req.messages) < 5)
             /\ accept_session(req, MaxJobs)) =>
            /\ jobs' = jobs /\ heap' = heap /\ task' = task
            /\ \E a \in AcceptIds : acc[a].pc = "idle" /\ acc'[a].pc # "idle"
                                    /\ acc'[a].req = req
       /\ \A a \in AcceptIds : (acc[a].pc # "idle" /\ acc'[a] # acc[a]) =>
            /\ jobs' = jobs /\ heap' = heap /\ task' = task
            /\ acc'[a].pc = "fetch_rels" => acc'[a].defs = graph[acc[a].req.userId]
            /\ acc'[a].pc = "idle" =>
                 /\ last'.op = "accept"
                 /\ last'.req = acc[a].req
                 /\ \/ last'.resp = Resp("query_failure")
                    \/ last'.resp =
                         [Resp("skipped") EXCEPT !.compilation =
                            Some([defs |-> acc[a].defs,
                                  rels |-> graph[acc[a].req.userId]])]]_vars

\* A skipped accept returned a compilation of a graph the engine has written
\* to, while the job id it named has an entry of another user in the store.
C8_Witness ==
    /\ last.op = "accept"
    /\ last.resp.status = "skipped"
    /\ last.resp.compilation = Some([defs |-> 0, rels |-> 1])
    /\ jobs[last.req.jobId] # Nil
    /\ heap[jobs[last.req.jobId]].user_id # last.req.userId

Processed(messages) == Len(messages) >= 1 /\ SumLen(messages) >= 5

\* C9: a session is processed if and only if it has at least 1 message and
\* the content lengths of its messages sum to at least 5; one message of 4
\* characters is skipped, one message of 5 characters is processed.
C9_SkipDecision ==
    /\ last.op = "accept" =>
         /\ last.resp.status = "processing" <=> Processed(last.req.messages)
         /\ last.resp.status \in {"skipped", "query_failure"} <=>
               ~Processed(last.req.messages)
         /\ last.req.messages = <<Msg("user", "abcd")>> =>
               last.resp.status # "processing"
         /\ last.req.messages = <<Msg("user", "abcde")>> =>
               last.resp.status = "processing"
    /\ \A a \in AcceptIds : acc[a].pc # "idle" => ~Processed(acc[a].req.messages)
    /\ \A o \in ObjIds : task[o].st \in InFlight => Processed(task[o].req.messages)

\* One message of 4 characters was skipped while the task of a session of one
\* message of 5 characters is in flight.
C9_Witness ==
    /\ last.op = "accept"
    /\ last.req.messages = <<Msg("user", "abcd")>>
    /\ last.resp.status = "skipped"
    /\ \E o \in ObjIds : /\ task[o].st \in InFlight
                         /\ task[o].req.messages = <<Msg("user", "abcde")>>

\* C11: every background task that ends was extracting and ends in one step
\* that made exactly one store call for its job id: complete_job with the
\* engine's counts when add_episode returned (error and code untouched),
\* fail_job with the engine's message and GRAPH_PROCESSING_ERROR when it
\* raised (completion metadata untouched); a call that finds no entry changes
\* nothing, and nothing else in the store changes.
C11_TaskEndsWithOneStoreCall ==
    [][\A o \in ObjIds : (task[o].st \in InFlight /\ task'[o].st \notin InFlight) =>
          LET e == jobs[task[o].req.jobId] IN
          /\ task[o].st = "extracting"
          /\ task'[o].st \in {"returned", "raised"}
          /\ jobs' = jobs
          /\ \A q \in ObjIds \ {e} : heap'[q] = heap[q]
          /\ (task'[o].st = "returned" /\ e # Nil) =>
                /\ heap'[e].status = "completed"
                /\ heap'[e].model = Some(ServiceModel)
                /\ \E r \in EngineResults :
                      /\ heap'[e].nodes_extracted = Some(r.nodes)
                      /\ heap'[e].edges_extracted = Some(r.edges)
                /\ heap'[e].processing_time_ms # None
                /\ heap'[e].episode_id = Some(o)
                /\ heap'[e].error = heap[e].error
                /\ heap'[e].code = heap[e].code
          /\ (task'[o].st = "raised" /\ e # Nil) =>
                /\ heap'[e].status = "failed"
                /\ \E msg \in EngineErrors : heap'[e].error = Some(msg)
                /\ heap'[e].code = Some("GRAPH_PROCESSING_ERROR")
                /\ heap'[e].model = heap[e].model
                /\ heap'[e].processing_time_ms = heap[e].processing_time_ms
                /\ heap'[e].nodes_extracted = heap[e].nodes_extracted
                /\ heap'[e].edges_extracted = heap[e].edges_extracted
                /\ heap'[e].episode_id = heap[e].episode_id]_vars

\* One task ended after add_episode returned and its entry is completed,
\* another ended after add_episode raised and its entry is failed.
C11_Witness ==
    /\ jobs["j1"] # Nil /\ jobs["j2"] # Nil
    /\ task[jobs["j1"]].st = "returned" /\ heap[jobs["j1"]].status = "completed"
    /\ task[jobs["j2"]].st = "raised" /\ heap[jobs["j2"]].status = "failed"

\* C12: when a background task succeeds with n nodes and e edges, get_job
\* then returns the job's entry as completed with the metadata passed to
\* complete_job; an entry whose task succeeded stays completed until polled;
\* the poll that returns it reports completed with those counts, the model,
\* the processing time, the task's episode id and a compilation, and leaves
\* the job id absent from the store.
C12_SuccessIsDelivered ==
    [][/\ \A o \in ObjIds, result \in EngineResults, ms \in ElapsedMs :
            TaskComplete(o, result, ms) =>
               LET job == jobs'[task[o].req.jobId] IN
               /\ job # Nil
               /\ heap'[job].status = "completed"
               /\ heap'[job].model = Some(ServiceModel)
               /\ heap'[job].processing_time_ms = Some(ms)
               /\ heap'[job].nodes_extracted = Some(result.nodes)
               /\ heap'[job].edges_extracted = Some(result.edges)
               /\ heap'[job].episode_id = Some(o)
       /\ \A j \in JobIds : (jobs[j] # Nil /\ task[jobs[j]].st = "returned") =>
               heap[jobs[j]].status = "completed"
       /\ \A p \in PollIds : PollFetchRels(p) =>
               /\ last'.resp.status = "completed"
               /\ last'.resp.compilation # None
               /\ \E result \in EngineResults, ms \in ElapsedMs :
                     last'.resp.metadata =
                        Some([model |-> ServiceModel,
                              processing_time_ms |-> Some(ms),
                              nodes_extracted |-> Some(result.nodes),
                              edges_extracted |-> Some(result.edges),
                              episode_id |-> Some(poll[p].job)])
               /\ jobs'[poll[p].job_id] = Nil]_vars

\* C13: once a poll has returned a terminal result for a job id, every poll
\* for it that starts afterwards returns not found until the job id is
\* accepted again: the step in which a poll returns completed or failed leaves
\* the job id without entry, only an accept of that job id that returns
\* processing gives it an entry again, and a poll that starts while the job id
\* has no entry returns not found.
C13_NotFoundAfterTerminalPoll ==
    [][\A j \in JobIds :
          /\ (PollFailed(j) \/ \E p \in PollIds : poll[p].job_id = j /\ PollFetchRels(p)) =>
                /\ last'.op = "poll" /\ last'.req.jobId = j
                /\ last'.resp.status \in Terminal
                /\ jobs'[j] = Nil
          /\ (jobs[j] = Nil /\ jobs'[j] # Nil) =>
                /\ last'.op = "accept" /\ last'.req.jobId = j
                /\ last'.resp.status = "processing"
          /\ (jobs[j] = Nil /\ ingest_status(j)) =>
                /\ last' = PollReturn(j, Resp("not_found"))
                /\ jobs'[j] = Nil]_vars

\* The only entry ever created was returned by a terminal poll, and a poll
\* that started afterwards returned not found.
C13_Witness ==
    /\ last = PollReturn(RaceJob, Resp("not_found"))
    /\ delivered[1] = 1
    /\ \A o \in ObjIds \ {1} : heap[o].status = "absent"
    /\ \A p \in PollIds : poll[p].pc = "idle"

\* C14: complete_job and fail_job called for a job id that has no entry
\* return normally, create no entry and leave the whole store unchanged.
C14_AbsentWriteIsNoop ==
    [][\A j \in JobIds :
          (/\ jobs[j] = Nil
           /\ \/ \E result \in EngineResults, ms \in ElapsedMs : StoreComplete(j, result, ms)
              \/ \E msg \in EngineErrors, code \in StoreCodes : StoreFail(j, msg, code)) =>
          /\ jobs' = jobs
          /\ heap' = heap
          /\ LastCall'.op \in {"complete", "fail"}
          /\ LastCall'.job_id = j
          /\ LastCall'.ret = None]_vars

\* complete_job was called for a job id whose entry had been removed.
C14_Witness ==
    /\ Len(calls) = 3
    /\ calls[1] = Call("create", "j1", "u1", Some(TRUE))
    /\ calls[2] = Call("remove", "j1", "", None)
    /\ calls[3] = Call("complete", "j1", "", None)
    /\ jobs["j1"] = Nil

\* C15: remove_job deletes the job id's entry whatever its status and touches
\* nothing else, changes nothing when the job id is absent, and a get_job
\* made right after it for the same job id returns None.
C15_RemoveDeletes ==
    [][\A j \in JobIds :
          /\ StoreRemove(j) =>
                /\ jobs'[j] = Nil
                /\ \A k \in JobIds \ {j} : jobs'[k] = jobs[k]
                /\ heap' = heap
                /\ jobs[j] = Nil => jobs' = jobs
                /\ LastCall' = Call("remove", j, "", None)
          /\ (/\ calls # <<>>
              /\ LastCall = Call("remove", j, "", None)
              /\ StoreGet(j)) =>
                LastCall' = Call("get", j, "", Some(Nil))]_vars

\* An entry still processing was removed and the get_job that followed
\* returned None.
C15_Witness ==
    /\ Len(calls) = 3
    /\ calls[1] = Call("create", "j1", "u1", Some(TRUE))
    /\ calls[2] = Call("remove", "j1", "", None)
    /\ calls[3] = Call("get", "j1", "", Some(Nil))

\* The entries that get_job calls have returned so far.
Returned == { calls[i].ret[1] : i \in { k \in 1..Len(calls) :
                  calls[k].op = "get" /\ calls[k].ret # Some(Nil) } }

\* C16: get_job returns a snapshot copy: a value returned by get_job is not
\* changed by any later complete_job, fail_job or remove_job on the same job
\* id.
C16_GetReturnsSnapshot ==
    [][\A o \in Returned : heap'[o] = heap[o]]_vars

\* C16 as amended: get_job returns the stored entry itself, not a copy: a
\* value returned by get_job takes every later complete_job and fail_job made
\* on its job id while the entry is stored, and no other call changes it (not
\* remove_job, not create_job, and no call made once it has left the store).
C16_GetReturnsLiveEntry ==
    [][/\ \A j \in JobIds : StoreGet(j) => LastCall' = Call("get", j, "", Some(jobs[j]))
       /\ \A o \in Returned :
            /\ \A j \in JobIds, result \in EngineResults, ms \in ElapsedMs :
                  (jobs[j] = o /\ StoreComplete(j, result, ms)) =>
                     /\ heap'[o].status = "completed"
                     /\ heap'[o].nodes_extracted = Some(result.nodes)
                     /\ heap'[o].edges_extracted = Some(result.edges)
                     /\ heap'[o].episode_id = Some(Len(calls'))
            /\ \A j \in JobIds, msg \in EngineErrors, code \in StoreCodes :
                  (jobs[j] = o /\ StoreFail(j, msg, code)) =>
                     /\ heap'[o].status = "failed"
                     /\ heap'[o].error = Some(msg)
                     /\ heap'[o].code = code
            /\ (\/ \A j \in JobIds : jobs[j] # o
                \/ LastCall'.op \in {"create", "get", "remove"}) =>
                  heap'[o] = heap[o]]_vars

\* An entry was returned by get_job while processing and complete_job was
\* called afterwards: the value the caller holds reads completed.
C16_Witness ==
    /\ Len(calls) = 3
    /\ calls[1] = Call("create", "j1", "u1", Some(TRUE))
    /\ calls[2] = Call("get", "j1", "", Some(jobs["j1"]))
    /\ calls[3] = Call("complete", "j1", "", None)
    /\ heap[calls[2].ret[1]].status = "completed"

\* C17: a poll that finds its job id's entry processing returns status
\* processing with no compilation, metadata, error or code, starts no graph
\* query and leaves the store unchanged, the entry included.
C17_ProcessingPollIsIdle ==
    [][\A j \in JobIds :
          (/\ jobs[j] # Nil
           /\ heap[jobs[j]].status = "processing"
           /\ ingest_status(j)) =>
          /\ last'.op = "poll" /\ last'.req.jobId = j
          /\ last'.resp = [status |-> "processing", compilation |-> None,
                           metadata |-> None, error |-> None, code |-> None]
          /\ poll' = poll
          /\ jobs' = jobs
          /\ heap' = heap
          /\ heap'[jobs'[j]].status = "processing"]_vars

\* A poll returned processing while the job's task was extracting, and the
\* entry is still stored.
C17_Witness ==
    /\ last = PollReturn("j1", Resp("processing"))
    /\ jobs["j1"] # Nil
    /\ heap[jobs["j1"]].status = "processing"
    /\ task[jobs["j1"]].st = "extracting"

\* C18: a poll for a job id that has no entry signals not found, which is
\* none of processing, completed and failed and is signalled for no job id
\* that has an entry; it starts no graph query and leaves the store unchanged.
C18_UnknownJobIsNotFound ==
    [][\A j \in JobIds :
          /\ (jobs[j] = Nil /\ ingest_status(j)) =>
                /\ last'.op = "poll" /\ last'.req.jobId = j
                /\ last'.resp.status = "not_found"
                /\ last'.resp.status \notin {"processing", "completed", "failed"}
                /\ last'.resp.compilation = None
                /\ last'.resp.metadata = None
                /\ poll' = poll
                /\ jobs' = jobs
                /\ heap' = heap
          /\ (jobs[j] # Nil /\ ingest_status(j) /\ poll' = poll) =>
                /\ last'.op = "poll" /\ last'.req.jobId = j
                /\ last'.resp.status \in {"processing", "failed"}]_vars

\* A poll for a job id without entry returned not found while another job
\* id's completed entry stayed in the store.
C18_Witness ==
    /\ last = PollReturn("j2", Resp("not_found"))
    /\ jobs["j2"] = Nil
    /\ jobs["j1"] # Nil
    /\ heap[jobs["j1"]].status = "completed"

\* C19: build_user_knowledge returns the empty string if and only if both
\* the entity query and the relationship query returned no record.
C19_EmptyIffNoRecords ==
    hyd.pc = "done" =>
        (hyd.out = "" <=> (hyd.entity_records = <<>> /\ hyd.rel_records = <<>>))

\* C19 as amended: build_user_knowledge returns the empty string if and only
\* if the two queries yield no line: every entity record lacks a name or a
\* summary and every relationship record lacks a source or a target name (so
\* in particular when both record sets are empty).
C19_EmptyIffNoLines ==
    hyd.pc = "done" =>
        (hyd.out = "" <=>
            /\ \A i \in 1..Len(hyd.entity_records) :
                  LET r == hyd.entity_records[i] IN
                  \/ r.name = None \/ r.name = Some("")
                  \/ r.summary = None \/ r.summary = Some("")
            /\ \A i \in 1..Len(hyd.rel_records) :
                  LET r == hyd.rel_records[i] IN
                  \/ r.source_name = None \/ r.source_name = Some("")
                  \/ r.target_name = None \/ r.target_name = Some(""))

\* Both queries returned records, none of which yields a line, and the
\* result is the empty string.
C19_Witness ==
    /\ hyd.pc = "done"
    /\ hyd.entity_records # <<>>
    /\ hyd.rel_records # <<>>
    /\ hyd.out = ""

\* C20: the compilation a poll returns with status completed is made of the
\* graph state its own two queries read, both after the extraction task of
\* the entry it returns has finished, never of a value kept from extraction
\* time; and no entry of the store has a compilation field.
C20_CompilationReadAtPoll ==
    [][/\ \A p \in PollIds : PollFetchDefs(p) =>
            /\ task[poll[p].job].st = "returned"
            /\ poll'[p].defs = graph[poll[p].user_id]
       /\ \A p \in PollIds : PollFetchRels(p) =>
            /\ task[poll[p].job].st = "returned"
            /\ last'.resp.status = "completed"
            /\ last'.resp.compilation =
                  Some([defs |-> poll[p].defs, rels |-> graph[poll[p].user_id]])
       /\ \A o \in ObjIds : "compilation" \notin DOMAIN heap'[o]]_vars

\* C21: every compilation build_user_knowledge returns is derived from one
\* graph state: its definitions section and its relationships section are
\* read from the same state of the group's graph.
C21_OneGraphState ==
    last.resp.compilation # None =>
        last.resp.compilation[1].defs = last.resp.compilation[1].rels

\* C21 as amended: the two sections are read by two queries made one after
\* the other during the call, each from the graph state at its own moment:
\* the definitions are never read from a later state than the relationships,
\* and neither from a state the graph has not reached.
C21_SectionsReadInOrder ==
    /\ last.resp.compilation # None =>
          /\ last.resp.compilation[1].defs <= last.resp.compilation[1].rels
          /\ \E u \in UserIds : last.resp.compilation[1].rels <= graph[u]
    /\ \A a \in AcceptIds : acc[a].pc = "fetch_rels" =>
          acc[a].defs <= graph[acc[a].req.userId]
    /\ \A p \in PollIds : poll[p].pc = "fetch_rels" =>
          poll[p].defs <= graph[poll[p].user_id]

\* A poll returned completed with definitions read before and relationships
\* read after a write of another extraction for the same user.
C21_Witness ==
    /\ last.op = "poll"
    /\ last.resp.status = "completed"
    /\ last.resp.compilation = Some([defs |-> 0, rels |-> 1])

Degree(n) ==
    Cardinality({ r \in hyd.db : (r.source = n \/ r.target = n) /\ r.source # r.target })

\* The definitions section of the output holds the line of entity n.
Defined(n) ==
    /\ hyd.out # ""
    /\ GraphNodes[n].name # None
    /\ GraphNodes[n].summary # None
    /\ \E i \in DOMAIN hyd.definitions :
          hyd.definitions[i] =
              "- **" \o GraphNodes[n].name[1] \o "**: " \o GraphNodes[n].summary[1]

\* The relationships section of the output holds a line naming entity n.
Related(n) ==
    /\ hyd.out # ""
    /\ \E i \in DOMAIN hyd.rel_records :
          /\ Truthy(hyd.rel_records[i].source_name)
          /\ Truthy(hyd.rel_records[i].target_name)
          /\ \E k \in DOMAIN hyd.relationships :
                hyd.relationships[k] = relationship_line(hyd.rel_records[i])
          /\ GraphNodes[n].name \in {hyd.rel_records[i].source_name,
                                     hyd.rel_records[i].target_name}

\* C23 as stated: an entity of the user's graph whose degree is
\* minDegree - 1 appears nowhere in the output of build, and one with a
\* non-empty summary whose degree is minDegree appears in it.
C23_DegreeFilter ==
    hyd.pc = "done" =>
        \A n \in NodeIds : GraphNodes[n].group_id = QueryGroup =>
            /\ Degree(n) = DEFAULT_MIN_DEGREE - 1 => ~(Defined(n) \/ Related(n))
            /\ (Truthy(GraphNodes[n].summary) /\ Degree(n) = DEFAULT_MIN_DEGREE)
                  => (Defined(n) \/ Related(n))

\* C23 amended: an entity whose degree is minDegree - 1 never has a line in
\* the definitions section of the output (the relationships section may
\* still name it), and an entity with a non-empty name and a non-empty
\* summary whose degree is minDegree always has one.
C23_DegreeFilterOnDefinitions ==
    hyd.pc = "done" =>
        \A n \in NodeIds : GraphNodes[n].group_id = QueryGroup =>
            /\ Degree(n) = DEFAULT_MIN_DEGREE - 1 => ~Defined(n)
            /\ (Truthy(GraphNodes[n].name) /\ Truthy(GraphNodes[n].summary)
                /\ Degree(n) = DEFAULT_MIN_DEGREE) => Defined(n)

C23_Witness ==
    /\ hyd.pc = "done"
    /\ Degree(1) = DEFAULT_MIN_DEGREE /\ Defined(1)
    /\ Degree(2) = DEFAULT_MIN_DEGREE - 1 /\ ~Defined(2) /\ Related(2)


\* ---- C24 ----
\* C24: an entry leaves the store only in the step of a poll that read that
\* same entry in a terminal status; an entry whose status is processing is
\* never removed.
C24_RemovedByItsTerminalPoll ==
    [][\A j \in JobIds : (jobs[j] # Nil /\ jobs'[j] # jobs[j]) =>
          /\ heap[jobs[j]].status \in {"completed", "failed"}
          /\ \/ PollFailed(j)
             \/ \E p \in PollIds : poll[p].job = jobs[j] /\ PollFetchRels(p)]_vars

\* ---- C25 ----
\* C25: when a background task calls complete_job or fail_job, the entry
\* created for that task is the one stored under its job id and has status
\* processing, and the write gives that entry its terminal status.
C25_TerminalWriteLandsOnOwnEntry ==
    [][\A o \in ObjIds :
          (task[o].st = "extracting" /\ task'[o].st \in {"returned", "raised"}) =>
              /\ jobs[task[o].req.jobId] = o
              /\ heap[o].status = "processing"
              /\ heap'[o].status = (IF task'[o].st = "returned"
                                    THEN "completed" ELSE "failed")]_vars

\* ---- C26 ----
\* C26, the part a finite run refutes: an entry create_job stored does not
\* leave status processing except for completed or failed, so it is not
\* lost before it reaches a terminal status.
C26_ProcessingEndsTerminal ==
    [][\A o \in ObjIds : heap[o].status = "processing" =>
          heap'[o].status \in {"processing", "completed", "failed"}]_vars

\* ---- C27 ----
\* C27: the step in which create_job stores a fresh entry is the step in
\* which accept_session returns status processing for it; at that return
\* the entry has status processing and its extraction task is scheduled but
\* has not started.
C27_FreshAcceptReturnsAtOnce ==
    [][\A j \in JobIds : (jobs[j] = Nil /\ jobs'[j] # Nil) =>
          /\ last'.op = "accept"
          /\ last'.req.jobId = j
          /\ last'.resp = Resp("processing")
          /\ heap[jobs'[j]].status = "absent"
          /\ heap'[jobs'[j]].status = "processing"
          /\ task'[jobs'[j]] = [st |-> "scheduled", req |-> last'.req]]_vars

C27_Witness ==
    /\ last.op = "accept" /\ last.resp.status = "processing"
    /\ heap[1].status = "freed" /\ delivered[1] = 1
    /\ jobs[RaceJob] = 2 /\ heap[2].status = "processing"
    /\ task[2].st = "scheduled" /\ task[2].req = last.req

\* ---- C28 ----
\* C28: a duplicate accept returns the status the stored entry has at that
\* moment.
C28_DuplicateReturnsStoredStatus ==
    [][\A req \in Requests : AcceptDuplicate(req) =>
          last'.resp.status = heap[jobs[req.jobId]].status]_vars

\* ---- C29 ----
\* C29: when a graph query fails inside a poll of a completed job, the poll
\* ends with that failure without another attempt, the store and every
\* stored entry are as before, and the entry the poll read, where it is
\* still the one stored under the job id, is completed with its metadata.
C29_QueryFailureLeavesStore ==
    [][\A p \in PollIds :
          (poll[p].pc \in {"fetch_defs", "fetch_rels"} /\ poll'[p].pc = "idle"
           /\ last'.resp.status = "query_failure") =>
              /\ last' = PollReturn(poll[p].job_id, Resp("query_failure"))
              /\ poll'[p] = IdlePoll
              /\ jobs' = jobs
              /\ delivered' = delivered
              /\ \A j \in JobIds : jobs[j] # Nil => heap'[jobs[j]] = heap[jobs[j]]
              /\ jobs[poll[p].job_id] = poll[p].job =>
                    /\ heap'[poll[p].job].status = "completed"
                    /\ PollMetadata(heap'[poll[p].job]) # None]_vars

EntryOf(J, H, k) == IF J[k] = Nil THEN NoEntry ELSE H[J[k]]

\* Some step of a call made for job id j: accept_session, its background
\* task, ingest_status, and the resumptions of either.
StepFor(j) ==
    \/ \E req \in Requests : req.jobId = j /\ accept_session(req, MaxJobs)
    \/ \E a \in AcceptIds :
          /\ acc[a].req.jobId = j
          /\ (AcceptFetchDefs(a) \/ AcceptFetchRels(a) \/ AcceptQueryFailure(a))
    \/ \E o \in ObjIds :
          /\ task[o].req.jobId = j
          /\ \/ TaskStart(o)
             \/ EngineWrite(o)
             \/ \E result \in EngineResults, ms \in ElapsedMs : TaskComplete(o, result, ms)
             \/ \E msg \in EngineErrors : TaskFail(o, msg)
    \/ ingest_status(j)
    \/ \E p \in PollIds :
          /\ poll[p].job_id = j
          /\ (PollFetchDefs(p) \/ PollFetchRels(p) \/ PollQueryFailure(p))

\* C31: a step of a call for job id j leaves the entry stored under every
\* other job id as it was: the same object with the same fields.
C31_OtherJobsUnchanged ==
    [][\A j \in JobIds : StepFor(j) =>
          \A k \in JobIds \ {j} :
              /\ jobs'[k] = jobs[k]
              /\ EntryOf(jobs', heap', k) = EntryOf(jobs, heap, k)]_vars

C31_Witness ==
    /\ last.op = "poll" /\ last.req.jobId = "j1" /\ last.resp.status = "failed"
    /\ jobs["j1"] = Nil
    /\ jobs["j2"] # Nil
    /\ heap[jobs["j2"]].status = "completed"
    /\ heap[jobs["j2"]].episode_id = Some(jobs["j2"])


\* ---- C32 ----
\* The first n of the lines, one per line of text.
RECURSIVE Listing(_, _)
Listing(lines, n) ==
    IF n = 0 THEN ""
    ELSE IF n = 1 THEN lines[1]
    ELSE Listing(lines, n - 1) \o "\n" \o lines[n]

DefinitionsSection(D) ==
    "#### 1. CONCEPTUAL DEFINITIONS & IDENTITY ####\n"
    \o "# (Understanding what these concepts mean specifically for this user)\n"
    \o Listing(D, Len(D))

RelationshipsSection(R) ==
    "#### 2. RELATIONAL DYNAMICS & CAUSALITY ####\n"
    \o "# (How these concepts interact and evolve over time)\n"
    \o Listing(R, Len(R))

\* The sections of a compilation that has at least one line.
Sections(D, R) ==
    IF D # <<>> /\ R # <<>>
    THEN DefinitionsSection(D) \o "\n\n" \o RelationshipsSection(R)
    ELSE IF D # <<>> THEN DefinitionsSection(D)
    ELSE RelationshipsSection(R)

StatsFooter(definitions, relations, est_tokens) ==
    "\n\n### STATS ###\n# Definitions: " \o ToString(definitions)
    \o " | Relations: " \o ToString(relations)
    \o " | Est. Tokens: ~" \o ToString(est_tokens)

\* The characters of the first n of the lines.
RECURSIVE CharCount(_, _)
CharCount(lines, n) ==
    IF n = 0 THEN 0 ELSE CharCount(lines, n - 1) + Len(lines[n])

\* The records of each query that give a line, in the query's order.
KeptEntities ==
    SelectSeq(hyd.entity_records, LAMBDA r : Truthy(r.name) /\ Truthy(r.summary))
KeptRelationships ==
    SelectSeq(hyd.rel_records,
              LAMBDA r : Truthy(r.source_name) /\ Truthy(r.target_name))

\* C32: the lines of each section are those of the query's records, in the
\* query's order; a compilation with at least one line is the definitions
\* section if it has a line, then the relationships section if it has a
\* line, then the stats footer, and a section without lines is left out.
C32_SectionsInFixedOrder ==
    hyd.pc = "done" =>
        LET D == hyd.definitions
            R == hyd.relationships
        IN /\ Len(D) = Len(KeptEntities)
           /\ \A i \in DOMAIN D :
                 D[i] = "- **" \o KeptEntities[i].name[1] \o "**: "
                        \o KeptEntities[i].summary[1]
           /\ Len(R) = Len(KeptRelationships)
           /\ \A i \in DOMAIN R : R[i] = relationship_line(KeptRelationships[i])
           /\ (D # <<>> \/ R # <<>>) =>
                 \E est \in 0..(CharCount(D, Len(D)) + CharCount(R, Len(R))) :
                    hyd.out = Sections(D, R) \o StatsFooter(Len(D), Len(R), est)

C32_Witness ==
    /\ hyd.pc = "done"
    /\ Len(hyd.definitions) = 2 /\ hyd.definitions[1] # hyd.definitions[2]
    /\ Len(hyd.relationships) = 2 /\ hyd.relationships[1] # hyd.relationships[2]
    /\ hyd.out = Sections(hyd.definitions, hyd.relationships)
                 \o StatsFooter(2, 2, (CharCount(hyd.definitions, 2)
                                       + CharCount(hyd.relationships, 2)) \div 4)

\* ---- C33 ----
\* C33: the footer of a compilation gives the number of definition lines,
\* the number of relationship lines, and the characters of all definition
\* and relationship lines together divided by 4, rounded down once.
C33_StatsFooter ==
    (hyd.pc = "done" /\ hyd.out # "") =>
        LET D == hyd.definitions
            R == hyd.relationships
            total == CharCount(D, Len(D)) + CharCount(R, Len(R))
        IN hyd.out = Sections(D, R) \o StatsFooter(Len(D), Len(R), total \div 4)

C33_Witness ==
    LET d == CharCount(hyd.definitions, Len(hyd.definitions))
        r == CharCount(hyd.relationships, Len(hyd.relationships))
    IN /\ hyd.pc = "done"
       /\ hyd.definitions # <<>> /\ hyd.relationships # <<>>
       /\ (d + r) \div 4 # (d \div 4) + (r \div 4)
       /\ hyd.out = Sections(hyd.definitions, hyd.relationships)
                    \o StatsFooter(Len(hyd.definitions), Len(hyd.relationships),
                                   (d + r) \div 4)


\* ---- C34 ----
\* The relation name with underscores as spaces and letters in lower case,
\* built from its first n characters.
RECURSIVE Verb(_, _)
Verb(chars, n) ==
    IF n = 0 THEN ""
    ELSE Verb(chars, n - 1) \o
         (IF chars[n] = "_" THEN " "
          ELSE IF \E i \in 1..26 : UpperCase[i] = chars[n]
               THEN LowerCase[CHOOSE i \in 1..26 : UpperCase[i] = chars[n]]
               ELSE chars[n])

\* A field of a record is present: it is not null and not empty.
Present(x) == x # None /\ Len(x[1]) # 0

\* The bracketed suffix that lists the temporal fields present.
TemporalSuffix(r) ==
    IF Present(r.valid_at) /\ Present(r.invalid_at)
    THEN " [valid_at: " \o r.valid_at[1] \o ", invalid_at: " \o r.invalid_at[1] \o "]"
    ELSE IF Present(r.valid_at) THEN " [valid_at: " \o r.valid_at[1] \o "]"
    ELSE IF Present(r.invalid_at) THEN " [invalid_at: " \o r.invalid_at[1] \o "]"
    ELSE ""

\* C34: the line of a relationship record is source, verb, target, the
\* quoted fact if there is one, and the temporal suffix; the verb is the
\* relation name with every underscore a space and every letter in lower
\* case (WORKS_WITH gives "works with"), or "relates to" when the name is
\* absent or empty; the suffix lists exactly the temporal fields present
\* and is missing when there is none.
C34_VerbAndTemporalSuffix ==
    /\ format_relation_name(
           Some(<<"W", "O", "R", "K", "S", "_", "W", "I", "T", "H">>)) = "works with"
    /\ hyd.pc = "done" =>
          /\ Len(hyd.relationships) = Len(KeptRelationships)
          /\ \A i \in DOMAIN hyd.relationships :
                LET r == KeptRelationships[i]
                    verb == IF Present(r.relation_name)
                            THEN Verb(r.relation_name[1], Len(r.relation_name[1]))
                            ELSE "relates to"
                IN hyd.relationships[i] =
                       "- " \o r.source_name[1] \o " " \o verb \o " " \o r.target_name[1]
                       \o (IF Present(r.fact) THEN ": \"" \o r.fact[1] \o "\"" ELSE "")
                       \o TemporalSuffix(r)

C34_Witness ==
    /\ hyd.pc = "done"
    /\ hyd.relationships =
          << "- Bob relates to Ana [valid_at: 2023-02-03, invalid_at: 2030-01-01]",
             "- Bob met at 2 Tea [invalid_at: 2031-07-01]" >>

====
